---- MODULE Spec2Model ----
(***************************************************************************)
(* Model of scripts/ingest/ingest_laws.py: the statute ingester.  main()   *)
(* walks the pending rows of law_registry, fetches each law's page,        *)
(* segments it into provision records (parse_by_jurisdiction), dedupes     *)
(* them, upserts them into legal_vectors in batches and marks the law      *)
(* ingested.                                                               *)
(*                                                                         *)
(* Text is modelled line by line.  A normalized text is a sequence of      *)
(* lines without leading blanks and without empty lines; each line is      *)
(*   dot   "<num>. <body>"     (matches ARTICLE_RE_QC_DOT)                 *)
(*   word  "Article <num>"     (matches ARTICLE_RE_QC_WORD)                *)
(*   sec   "<num> <Body>"      (matches SECTION_RE_TEXT)                   *)
(*   plain any other line                                                  *)
(* and carries the number it shows and the length of its body.  Character  *)
(* positions, slices and lengths are computed from these, so that the      *)
(* 60-character filter and the extents of the chunks are the code's.  The  *)
(* content of a text is identified by where it was cut from (via, at).     *)
(***************************************************************************)
EXTENDS Integers, Sequences, FiniteSets, TLC

VARIABLES
    laws,      \* main: the rows q.execute().data returned
    status,    \* law_registry.status of each of these rows
    idx,       \* main: position of the for loop in laws (0: no loop running)
    pc,        \* control point
    url,       \* main: source_url the current document is fetched from
    html,      \* main: the page last fetched for the current document
    rows,      \* rows of the current document / of the running upsert
    bsz,       \* upsert_legal_vectors: batch_size
    off,       \* upsert_legal_vectors: i, the offset of the next batch
    sink,      \* table legal_vectors
    sent,      \* history: the batches the sink accepted, in order
    err,       \* the exception that ended the run, or None
    fetches,   \* history: per law, the urls requests.get was called with
    parsed,    \* history: per law, what parse_by_jurisdiction returned
    in_rows,   \* harness: argument of a direct call of dedupe_rows/upsert
    out_rows,  \* harness: value dedupe_rows returned
    p_in,      \* harness: argument of a direct call of a parser
    p_out,     \* harness: rows the parser returned
    p_ext,     \* harness: extents (start, end) the parser sliced
    runs       \* number of times main was started on this registry

vars == <<laws, status, idx, pc, url, html, rows, bsz, off, sink, sent, err,
          fetches, parsed, in_rows, out_rows, p_in, p_out, p_ext, runs>>

None == "None"

(***************************************************************************)
(* Bounds of the model                                                     *)
(***************************************************************************)
MaxRows == 3        \* longest list handed to dedupe_rows by the harness
MaxLines == 3       \* longest provincial text handed to the parser harness
MaxFedLines == 2    \* longest federal text handed to the parser harness
MaxTail == 1        \* enumerated DOM candidates after the generated ones
MaxCands == 2       \* longest list of enumerated DOM candidates alone
MaxLaws == 2        \* rows of law_registry returned to main
MaxRuns == 2        \* times main is started on the same registry
MaxRerunLaws == 1   \* rows of a registry main is started on again

(***************************************************************************)
(* Program constants                                                       *)
(***************************************************************************)
BATCH_SIZE == 100
MIN_CHUNK_LEN == 60
MIN_DOM_TEXT_LEN == 40
DOM_MIN_ROWS == 20
SAMPLE_LEN == 5

Min(a, b) == IF a < b THEN a ELSE b

BoundedSeq(S, n) == UNION {[1..k -> S] : k \in 0..n}

Range(s) == {s[i] : i \in 1..Len(s)}

(***************************************************************************)
(* Records and dedupe_rows                                                 *)
(***************************************************************************)
\* len(r.get("text") or "")
NoText == [via |-> None, at |-> 0, len |-> 0]

TextLen(r) == IF r.text = NoText THEN 0 ELSE r.text.len

\* key = (r["code_id"], r["jurisdiction"], r["citation"])
Key(r) == <<r.code_id, r.jurisdiction, r.citation>>

Keys(rs) == {Key(rs[i]) : i \in 1..Len(rs)}

\* the condition under which best[key] = r replaces the record kept so far
\* faulty variant: >= for >
ReplacesGE(r, kept) == TextLen(r) >= TextLen(kept)

Replaces(r, kept) == TextLen(r) > TextLen(kept)

\* faulty variant: the rows are collected in a list instead of a dict
DedupeStepAppend(best, r) == Append(best, r)

\* one iteration of the for loop of dedupe_rows; best is the dict, in
\* insertion order of its keys (a replaced key keeps its place)
DedupeStep(best, r) ==
    IF \E i \in 1..Len(best) : Key(best[i]) = Key(r)
    THEN LET i == CHOOSE j \in 1..Len(best) : Key(best[j]) = Key(r)
         IN IF Replaces(r, best[i]) THEN [best EXCEPT ![i] = r] ELSE best
    ELSE Append(best, r)

\* the for loop over rows[lo..hi], in order, started with dict best (the
\* range is halved to keep the evaluation shallow)
RECURSIVE DedupeFrom(_, _, _, _)
DedupeFrom(best, rs, lo, hi) ==
    IF lo > hi THEN best
    ELSE IF lo = hi THEN DedupeStep(best, rs[lo])
    ELSE LET mid == (lo + hi) \div 2
             left == DedupeFrom(best, rs, lo, mid)
         IN IF Len(left) >= 0   \* the first half is evaluated first
            THEN DedupeFrom(left, rs, mid + 1, hi)
            ELSE left

dedupe_rows(rs) == DedupeFrom(<<>>, rs, 1, Len(rs))

(***************************************************************************)
(* Normalized text: lines, positions, slices                               *)
(***************************************************************************)
Digits(k) == IF k < 10 THEN 1 ELSE IF k < 100 THEN 2 ELSE 3

\* length of a hierarchical number such as 12.1, given as <<12, 1>>
RECURSIVE NumLenFrom(_, _)
NumLenFrom(n, k) ==
    IF k > Len(n) THEN 0
    ELSE Digits(n[k]) + (IF k < Len(n) THEN 1 ELSE 0) + NumLenFrom(n, k + 1)

NumLen(n) == NumLenFrom(n, 1)

WORD_MARKER_LEN == 8   \* "Article" and the blank after it

\* characters of one line
LineLen(l) ==
    CASE l.kind = "dot" ->
            NumLen(l.num) + 1 + (IF l.len > 0 THEN 1 + l.len ELSE 0)
      [] l.kind = "word" -> WORD_MARKER_LEN + NumLen(l.num)
      [] l.kind = "sec" -> NumLen(l.num) + 1 + l.len
      [] OTHER -> l.len

\* position of the first character of line k (lines are joined by "\n")
RECURSIVE LineStart(_, _)
LineStart(text, k) ==
    IF k <= 1 THEN 0 ELSE LineStart(text, k - 1) + LineLen(text[k - 1]) + 1

\* len(text)
TextLength(text) ==
    IF Len(text) = 0 THEN 0
    ELSE LineStart(text, Len(text)) + LineLen(text[Len(text)])

\* characters of lines lo..hi, line ends not counted
RECURSIVE SumLens(_, _, _)
SumLens(ls, lo, hi) ==
    IF lo > hi THEN 0
    ELSE IF lo = hi THEN LineLen(ls[lo])
    ELSE LET mid == (lo + hi) \div 2
         IN SumLens(ls, lo, mid) + SumLens(ls, mid + 1, hi)

\* the positions of the first characters of lines lo..hi, line lo being at
\* position base
RECURSIVE StartsFrom(_, _, _, _)
StartsFrom(text, lo, hi, base) ==
    IF lo > hi THEN <<>>
    ELSE IF lo = hi THEN <<base>>
    ELSE LET mid == (lo + hi) \div 2
         IN StartsFrom(text, lo, mid, base)
            \o StartsFrom(text, mid + 1, hi,
                          base + SumLens(text, lo, mid) + (mid - lo + 1))

\* the positions of the first characters of all the lines
Starts(text) == StartsFrom(text, 1, Len(text), 0)

\* text[start:end], as the lines that lie inside it (st = Starts(text))
Slice(text, st, start, end) ==
    LET inside == {k \in 1..Len(text) :
                      start <= st[k] /\ st[k] + LineLen(text[k]) <= end}
    IN IF inside = {} THEN <<>>
       ELSE SubSeq(text, CHOOSE k \in inside : \A j \in inside : k <= j,
                         CHOOSE k \in inside : \A j \in inside : j <= k)

\* len(chunk.strip()) of a chunk made of these lines
ChunkLen(ls) ==
    IF Len(ls) = 0 THEN 0 ELSE SumLens(ls, 1, Len(ls)) + (Len(ls) - 1)

\* ARTICLE_RE_QC_DOT matches line k: "<num>." followed by white space (the
\* text is stripped, so a bare "<num>." on the last line has none)
IsDotMatch(text, k) ==
    /\ text[k].kind = "dot"
    /\ Len(text[k].num) <= 2
    /\ text[k].len > 0 \/ k < Len(text)

\* ARTICLE_RE_QC_WORD matches line k
IsWordMatch(text, k) == text[k].kind = "word" /\ Len(text[k].num) <= 2

\* SECTION_RE_TEXT matches line k
IsSecMatch(text, k) ==
    text[k].kind = "sec" /\ Len(text[k].num) <= 4 /\ text[k].len >= 2

\* list(RE.finditer(text)): the matching lines, by ascending position
RECURSIVE MatchesFrom(_, _, _, _)
MatchesFrom(text, kind, lo, hi) ==
    IF lo > hi THEN <<>>
    ELSE IF lo = hi
    THEN LET hit == CASE kind = "dot" -> IsDotMatch(text, lo)
                      [] kind = "word" -> IsWordMatch(text, lo)
                      [] OTHER -> IsSecMatch(text, lo)
         IN IF hit THEN <<lo>> ELSE <<>>
    ELSE LET mid == (lo + hi) \div 2
         IN MatchesFrom(text, kind, lo, mid)
            \o MatchesFrom(text, kind, mid + 1, hi)

Matches(text, kind) == MatchesFrom(text, kind, 1, Len(text))

\* faulty variant: every chunk runs to the end of the text
ChunkEndAlwaysLast(text, st, ms, i) ==
    st[Len(text)] + LineLen(text[Len(text)])

\* end = matches[i + 1].start() if i + 1 < len(matches) else len(text)
ChunkEnd(text, st, ms, i) ==
    IF i + 1 <= Len(ms) THEN st[ms[i + 1]]
    ELSE st[Len(text)] + LineLen(text[Len(text)])

\* the (start, end) the loop over the matches slices the text at
ExtentsAt(text, st, ms) ==
    [i \in 1..Len(ms) |->
        [start |-> st[ms[i]], end |-> ChunkEnd(text, st, ms, i)]]

Extents(text, ms) == ExtentsAt(text, Starts(text), ms)

Row(code_id, jurisdiction, bucket, kind, num, text) ==
    [code_id |-> code_id, jurisdiction |-> jurisdiction,
     jurisdiction_bucket |-> bucket, citation |-> <<kind, num, code_id>>,
     title |-> None, text |-> text]

(***************************************************************************)
(* parse_legisquebec_articles                                              *)
(***************************************************************************)
\* mode and matches: numeric-dot first, word-marker if it finds nothing
\* faulty variant: the word-marker detector is tried first
QCModeWordFirst(text) ==
    IF Matches(text, "word") # <<>> THEN "word" ELSE "dot"

QCMode(text) == IF Matches(text, "dot") # <<>> THEN "dot" ELSE "word"

QCMatches(text) == Matches(text, QCMode(text))

\* len of the chunk after the marker is removed and the rest stripped
QCStrippedLen(mode, ls) ==
    IF mode = "dot"
    THEN IF ls[1].len > 0 \/ Len(ls) > 1
         THEN ChunkLen(ls) - (NumLen(ls[1].num) + 2)
         ELSE ChunkLen(ls)
    ELSE IF Len(ls) > 1 THEN ChunkLen(ls) - (LineLen(ls[1]) + 1) ELSE 0

\* faulty variant: the length is tested before the marker is removed
QCKeptUnstripped(mode, ls) == ChunkLen(ls) >= MIN_CHUNK_LEN

\* not (not chunk or len(chunk) < 60)
QCKept(mode, ls) == QCStrippedLen(mode, ls) >= MIN_CHUNK_LEN

\* the rows the loop appends for matches lo..hi, in order
RECURSIVE QCRowsFrom(_, _, _, _, _, _, _, _, _)
QCRowsFrom(text, st, mode, ext, lo, hi, code_id, jurisdiction, bucket) ==
    IF lo > hi THEN <<>>
    ELSE IF lo = hi
    THEN LET ls == Slice(text, st, ext[lo].start, ext[lo].end)
             row == Row(code_id, jurisdiction, bucket, "art.", ls[1].num,
                        [via |-> mode, at |-> ext[lo].start,
                         len |-> QCStrippedLen(mode, ls)])
         IN IF QCKept(mode, ls) THEN <<row>> ELSE <<>>
    ELSE LET mid == (lo + hi) \div 2
         IN QCRowsFrom(text, st, mode, ext, lo, mid,
                       code_id, jurisdiction, bucket)
            \o QCRowsFrom(text, st, mode, ext, mid + 1, hi,
                          code_id, jurisdiction, bucket)

parse_legisquebec_articles(page, code_id, jurisdiction, bucket) ==
    LET text == page.text
        st == Starts(text)
        ms == QCMatches(text)
        ext == ExtentsAt(text, st, ms)
    IN IF ms = <<>> THEN <<>>
       ELSE dedupe_rows(QCRowsFrom(text, st, QCMode(text), ext, 1, Len(ext),
                                   code_id, jurisdiction, bucket))

(***************************************************************************)
(* parse_justice_laws_sections                                             *)
(***************************************************************************)
\* len(text) of a DOM candidate: its leading number, if any, and its body
CandTextLen(c) ==
    IF c.num = <<>> THEN c.len
    ELSE NumLen(c.num) + (IF c.len > 0 THEN 1 + c.len ELSE 0)

\* faulty variant: the key is recorded only when the candidate yields a row
DomSeenIfKept(seen, c) ==
    IF c.len >= MIN_CHUNK_LEN THEN seen \cup {c.num} ELSE seen

\* seen.add(key)
DomSeen(seen, c) == seen \cup {c.num}

\* the candidate gets past the three `continue` before seen.add
DomParses(seen, c) ==
    /\ CandTextLen(c) >= MIN_DOM_TEXT_LEN
    /\ c.num # <<>>
    /\ c.num \notin seen

\* (A) the DOM loop over the candidates
RECURSIVE DomRowsFrom(_, _, _, _, _, _)
DomRowsFrom(cands, i, seen, code_id, jurisdiction, bucket) ==
    IF i > Len(cands) THEN <<>>
    ELSE LET c == cands[i]
         IN IF ~DomParses(seen, c)
            THEN DomRowsFrom(cands, i + 1, seen, code_id, jurisdiction, bucket)
            ELSE (IF c.len < MIN_CHUNK_LEN THEN <<>>
                  ELSE <<Row(code_id, jurisdiction, bucket, "s.", c.num,
                             [via |-> "dom", at |-> i, len |-> c.len])>>)
                 \o DomRowsFrom(cands, i + 1, DomSeen(seen, c),
                                code_id, jurisdiction, bucket)

DomRows(page, code_id, jurisdiction, bucket) ==
    DomRowsFrom(page.cands, 1, {}, code_id, jurisdiction, bucket)

\* len of a fallback chunk after "<num> " is removed
SecStrippedLen(ls) == ChunkLen(ls) - (NumLen(ls[1].num) + 1)

\* (B) the loop over the matches of SECTION_RE_TEXT
RECURSIVE SecRowsFrom(_, _, _, _, _, _, _, _)
SecRowsFrom(text, st, ext, lo, hi, code_id, jurisdiction, bucket) ==
    IF lo > hi THEN <<>>
    ELSE IF lo = hi
    THEN LET ls == Slice(text, st, ext[lo].start, ext[lo].end)
             row == Row(code_id, jurisdiction, bucket, "s.", ls[1].num,
                        [via |-> "regex", at |-> ext[lo].start,
                         len |-> SecStrippedLen(ls)])
         IN IF SecStrippedLen(ls) >= MIN_CHUNK_LEN THEN <<row>> ELSE <<>>
    ELSE LET mid == (lo + hi) \div 2
         IN SecRowsFrom(text, st, ext, lo, mid, code_id, jurisdiction, bucket)
            \o SecRowsFrom(text, st, ext, mid + 1, hi,
                           code_id, jurisdiction, bucket)

\* (B) as a whole: rows = [] and the rows of the regex matches
FallbackRows(page, code_id, jurisdiction, bucket) ==
    LET text == page.text
        st == Starts(text)
        ms == Matches(text, "sec")
        ext == ExtentsAt(text, st, ms)
    IN IF ms = <<>> THEN <<>>
       ELSE dedupe_rows(SecRowsFrom(text, st, ext, 1, Len(ext),
                                    code_id, jurisdiction, bucket))

\* faulty variant: the DOM rows are accepted from one row on
DomAcceptedAny(dom) == Len(dom) >= 1

\* if len(rows) >= 20
DomAccepted(dom) == Len(dom) >= DOM_MIN_ROWS

parse_justice_laws_sections(page, code_id, jurisdiction, bucket) ==
    IF ~page.hasMain THEN <<>>
    ELSE LET dom == DomRows(page, code_id, jurisdiction, bucket)
         IN IF DomAccepted(dom) THEN dedupe_rows(dom)
            ELSE FallbackRows(page, code_id, jurisdiction, bucket)

\* n DOM candidates that each yield a row, numbered 101, 102, ...
GoodCands(n) == [i \in 1..n |-> [num |-> <<100 + i>>, len |-> MIN_CHUNK_LEN]]

(***************************************************************************)
(* upsert_legal_vectors and the sink                                       *)
(***************************************************************************)
\* faulty variant: rows[i:], the slice without its end
BatchAtToEnd(rs, i, n) == SubSeq(rs, i + 1, Len(rs))

\* rows[i:i + batch_size]
BatchAt(rs, i, n) == SubSeq(rs, i + 1, Min(i + n, Len(rs)))

\* faulty variant: a plain insert, no conflict key
UpsertInsert(table, batch) == table \cup Range(batch)

\* upsert with on_conflict="code_id,jurisdiction,citation"
Upsert(table, batch) ==
    {s \in table : Key(s) \notin Keys(batch)} \cup Range(batch)

\* sample = [b.get("citation") for b in batch[:5]]
Sample(batch) ==
    [i \in 1..Min(SAMPLE_LEN, Len(batch)) |-> batch[i].citation]

NoErr == [kind |-> None]

NoUrl == [justice |-> FALSE, full |-> FALSE, page |-> None]

NoPage == [id |-> None]

NoInput == [jur |-> None]

\* upsert_legal_vectors(rows, batch_size): entry, rows = dedupe_rows(rows)
UpsertEnter(rs, n) ==
    /\ rows' = dedupe_rows(rs)
    /\ bsz' = n
    /\ off' = 0
    /\ pc' = "upsert"

\* one iteration of the batch loop, the sink accepting the batch
UpsertBatchOk ==
    /\ pc = "upsert"
    /\ off < Len(rows)
    /\ LET batch == BatchAt(rows, off, bsz)
       IN /\ sink' = Upsert(sink, batch)
          /\ sent' = Append(sent, [law |-> idx, off |-> off, batch |-> batch])
    /\ off' = off + bsz
    /\ UNCHANGED <<laws, status, idx, pc, url, html, rows, bsz, err, fetches,
                   parsed, in_rows, out_rows, p_in, p_out, p_ext, runs>>

\* faulty variant: the APIError is swallowed and the loop goes on
UpsertBatchFailSwallowed ==
    /\ pc = "upsert"
    /\ off < Len(rows)
    /\ off' = off + bsz
    /\ UNCHANGED <<laws, status, idx, pc, url, html, rows, bsz, sink, sent,
                   err, fetches, parsed, in_rows, out_rows, p_in, p_out, p_ext,
                   runs>>

\* one iteration of the batch loop, the sink raising APIError
UpsertBatchFail ==
    /\ pc = "upsert"
    /\ off < Len(rows)
    /\ err' = [kind |-> "UpsertError", law |-> idx, off |-> off,
               sample |-> Sample(BatchAt(rows, off, bsz))]
    /\ pc' = "aborted"
    /\ UNCHANGED <<laws, status, idx, url, html, rows, bsz, off, sink, sent,
                   fetches, parsed, in_rows, out_rows, p_in, p_out, p_ext,
                   runs>>

(***************************************************************************)
(* Harness: dedupe_rows and upsert_legal_vectors called directly           *)
(***************************************************************************)
UnitTexts ==
    {NoText} \cup {[via |-> "t", at |-> a, len |-> l] :
                    <<a, l>> \in {<<1, 1>>, <<2, 1>>, <<1, 2>>}}

UnitKeys == {<<"A", <<"art.", <<1>>, "A">>>>, <<"A", <<"art.", <<2>>, "A">>>>,
             <<"B", <<"art.", <<1>>, "B">>>>}

UnitRows ==
    {[code_id |-> k[1], jurisdiction |-> "QC", jurisdiction_bucket |-> "QC",
      citation |-> k[2], title |-> None, text |-> t] :
        k \in UnitKeys, t \in UnitTexts}

UnitBatchSizes == {1, 2, BATCH_SIZE}

Idle ==
    /\ laws = <<>> /\ status = <<>> /\ idx = 0 /\ url = NoUrl /\ html = NoPage
    /\ rows = <<>> /\ bsz = BATCH_SIZE /\ off = 0 /\ sink = {} /\ sent = <<>>
    /\ err = NoErr /\ fetches = <<>> /\ parsed = <<>> /\ runs = 1

InitDedupe ==
    /\ Idle
    /\ pc = "unit"
    /\ in_rows \in BoundedSeq(UnitRows, MaxRows)
    /\ out_rows = <<>>
    /\ p_in = NoInput /\ p_out = <<>> /\ p_ext = <<>>

UnitDedupe ==
    /\ pc = "unit"
    /\ out_rows' = dedupe_rows(in_rows)
    /\ pc' = "deduped"
    /\ UNCHANGED <<laws, status, idx, url, html, rows, bsz, off, sink,
                   sent, err, fetches, parsed, in_rows, p_in, p_out, p_ext,
                   runs>>

UnitUpsertCall ==
    /\ pc = "unit"
    /\ \E n \in UnitBatchSizes : UpsertEnter(in_rows, n)
    /\ UNCHANGED <<laws, status, idx, url, html, sink, sent, err, fetches,
                   parsed, in_rows, out_rows, p_in, p_out, p_ext, runs>>

UnitUpsertReturn ==
    /\ pc = "upsert"
    /\ idx = 0
    /\ off >= Len(rows)
    /\ pc' = "returned"
    /\ UNCHANGED <<laws, status, idx, url, html, rows, bsz, off, sink, sent,
                   err, fetches, parsed, in_rows, out_rows, p_in, p_out, p_ext,
                   runs>>

NextDedupe ==
    \/ UnitDedupe
    \/ UnitUpsertCall
    \/ UpsertBatchOk
    \/ UpsertBatchFail
    \/ UnitUpsertReturn

SpecDedupe == InitDedupe /\ [][NextDedupe]_vars

(***************************************************************************)
(* Harness: the parsers called directly                                    *)
(***************************************************************************)
UnitNums == {<<1>>, <<2>>}

UnitQCLines ==
    {[kind |-> "dot", num |-> n, len |-> l] :
        n \in UnitNums, l \in {0, MIN_CHUNK_LEN - 2, MIN_CHUNK_LEN}}
    \cup {[kind |-> "word", num |-> n, len |-> 0] : n \in UnitNums}
    \cup {[kind |-> "plain", num |-> <<>>, len |-> l] :
             l \in {1, MIN_CHUNK_LEN}}

UnitFedLines ==
    {[kind |-> "sec", num |-> n, len |-> l] :
        n \in UnitNums, l \in {MIN_CHUNK_LEN - 2, MIN_CHUNK_LEN}}
    \cup {[kind |-> "plain", num |-> <<>>, len |-> l] :
             l \in {1, MIN_CHUNK_LEN}}

UnitCands ==
    {[num |-> n, len |-> l] :
        n \in UnitNums \cup {<<>>},
        l \in {MIN_DOM_TEXT_LEN - 3, MIN_DOM_TEXT_LEN - 2, MIN_CHUNK_LEN}}

UnitPads == {0, DOM_MIN_ROWS - 1, DOM_MIN_ROWS}

UnitPage(hasMain, text, cands) ==
    [id |-> "unit", hasMain |-> hasMain, text |-> text, cands |-> cands,
     links |-> <<>>]

InitParse ==
    /\ Idle
    /\ pc = "unit_parse"
    /\ in_rows = <<>> /\ out_rows = <<>>
    /\ p_out = <<>> /\ p_ext = <<>>
    /\ \/ \E text \in BoundedSeq(UnitQCLines, MaxLines) :
             p_in = [jur |-> "QC", page |-> UnitPage(TRUE, text, <<>>)]
       \/ \E text \in BoundedSeq(UnitFedLines, MaxFedLines),
             n \in UnitPads, tail \in BoundedSeq(UnitCands, MaxTail),
             hasMain \in BOOLEAN :
             p_in = [jur |-> "CA-FED",
                     page |-> UnitPage(hasMain, text, GoodCands(n) \o tail)]
       \/ \E cands \in BoundedSeq(UnitCands, MaxCands) :
             p_in = [jur |-> "CA-FED", page |-> UnitPage(TRUE, <<>>, cands)]

UnitParseQC ==
    /\ pc = "unit_parse"
    /\ p_in.jur = "QC"
    /\ p_out' = parse_legisquebec_articles(p_in.page, "A", "QC", "QC")
    /\ p_ext' = Extents(p_in.page.text, QCMatches(p_in.page.text))
    /\ pc' = "unit_parsed"
    /\ UNCHANGED <<laws, status, idx, url, html, rows, bsz, off, sink, sent,
                   err, fetches, parsed, in_rows, out_rows, p_in, runs>>

UnitParseFed ==
    /\ pc = "unit_parse"
    /\ p_in.jur = "CA-FED"
    /\ p_out' = parse_justice_laws_sections(p_in.page, "A", "CA-FED", "CA")
    /\ p_ext' = IF p_in.page.hasMain
                   /\ ~DomAccepted(DomRows(p_in.page, "A", "CA-FED", "CA"))
                THEN Extents(p_in.page.text, Matches(p_in.page.text, "sec"))
                ELSE <<>>
    /\ pc' = "unit_parsed"
    /\ UNCHANGED <<laws, status, idx, url, html, rows, bsz, off, sink, sent,
                   err, fetches, parsed, in_rows, out_rows, p_in, runs>>

\* parse_justice_laws_sections up to the end of the DOM loop: rows as it
\* stands before the test of len(rows) >= 20.  The loop reads the
\* candidates only, so it is called on the pages without text.
UnitDomPass ==
    /\ pc = "unit_parse"
    /\ p_in.jur = "CA-FED"
    /\ p_in.page.hasMain
    /\ p_in.page.text = <<>>
    /\ p_out' = DomRows(p_in.page, "A", "CA-FED", "CA")
    /\ pc' = "unit_dom"
    /\ UNCHANGED <<laws, status, idx, url, html, rows, bsz, off, sink, sent,
                   err, fetches, parsed, in_rows, out_rows, p_in, p_ext,
                   runs>>

NextParse == UnitParseQC \/ UnitParseFed \/ UnitDomPass

SpecParse == InitParse /\ [][NextParse]_vars

(***************************************************************************)
(* The web and the registry main() runs against                            *)
(***************************************************************************)
BigLines == 101     \* provisions of the large provincial page

DotLine(n, l) == [kind |-> "dot", num |-> n, len |-> l]

SecLine(n, l) == [kind |-> "sec", num |-> n, len |-> l]

PlainLine(l) == [kind |-> "plain", num |-> <<>>, len |-> l]

Href(match, form, justice, page) ==
    [match |-> match, form |-> form, justice |-> justice, page |-> page]

Url(justice, full, page) == [justice |-> justice, full |-> full, page |-> page]

Page(id, hasMain, text, cands, links) ==
    [id |-> id, hasMain |-> hasMain, text |-> text, cands |-> cands,
     links |-> links]

\* what each address serves
Web(id) ==
    CASE id = "qc_small" ->
            Page(id, TRUE,
                 <<PlainLine(12), DotLine(<<1>>, MIN_CHUNK_LEN),
                   DotLine(<<2>>, MIN_CHUNK_LEN - 2), DotLine(<<3>>, 70),
                   DotLine(<<1>>, 80)>>, <<>>, <<>>)
      [] id = "qc_big" ->
            Page(id, TRUE,
                 [i \in 1..BigLines |-> DotLine(<<i>>, MIN_CHUNK_LEN)]
                 \o <<DotLine(<<1>>, MIN_CHUNK_LEN + 1)>>, <<>>, <<>>)
      [] id = "qc_empty" ->
            Page(id, TRUE, <<PlainLine(30), PlainLine(90)>>, <<>>, <<>>)
      [] id = "fed_index" ->
            Page(id, TRUE, <<PlainLine(25)>>, <<>>,
                 <<Href(FALSE, "abs", FALSE, "qc_empty"),
                   Href(TRUE, "rel", TRUE, "fed_full"),
                   Href(TRUE, "abs", TRUE, "fed_regex")>>)
      [] id = "fed_index_nolink" ->
            Page(id, TRUE, <<PlainLine(25), SecLine(<<1>>, 75)>>, <<>>,
                 <<Href(FALSE, "root", TRUE, "qc_empty")>>)
      [] id = "fed_full" ->
            Page(id, TRUE, <<SecLine(<<1>>, 90)>>,
                 GoodCands(DOM_MIN_ROWS) \o <<[num |-> <<101>>, len |-> 95]>>,
                 <<Href(TRUE, "root", TRUE, "fed_regex")>>)
      [] id = "fed_regex" ->
            Page(id, TRUE,
                 <<SecLine(<<1>>, 61), PlainLine(3), SecLine(<<2, 1>>, 10),
                   SecLine(<<3>>, 64)>>,
                 GoodCands(2), <<>>)
      [] OTHER -> NoPage

\* the rows of law_registry the query can return, less law_key
Catalogue ==
    {[canonical_code_id |-> c[1], jurisdiction |-> c[2],
      jurisdiction_bucket |-> c[3], source_url |-> c[4]] :
        c \in {<<"CCQ", "QC", "QC", Url(FALSE, FALSE, "qc_small")>>,
               <<"CPC", None, None, Url(FALSE, FALSE, "qc_small")>>,
               <<"CCQ", "QC", None, Url(FALSE, FALSE, "qc_big")>>,
               <<"CPC", "QC", "QC", Url(FALSE, FALSE, "qc_empty")>>,
               <<"CPC", "QC", "QC", NoUrl>>,
               <<"ON1", "CA", "CA", Url(FALSE, FALSE, "qc_small")>>,
               <<"CCC", "CA-FED", "CA", Url(TRUE, FALSE, "fed_index")>>,
               <<"CCC", "CA-FED", "CA", Url(TRUE, FALSE, "fed_index_nolink")>>,
               <<"CCC", "CA-FED", "CA", Url(TRUE, TRUE, "fed_full")>>,
               <<"DIV", "CA-FED", None, Url(FALSE, FALSE, "fed_index")>>,
               <<"DIV", "CA-FED", "CA", Url(TRUE, TRUE, "fed_regex")>>}}

(***************************************************************************)
(* resolve_justice_laws_fulltext_url and parse_by_jurisdiction             *)
(***************************************************************************)
\* candidates: the hrefs the full-text pattern finds, in document order
RECURSIVE FullTextLinks(_, _)
FullTextLinks(links, k) ==
    IF k > Len(links) THEN <<>>
    ELSE (IF links[k].match THEN <<links[k]>> ELSE <<>>)
         \o FullTextLinks(links, k + 1)

\* faulty variant: href = candidates[-1]
resolve_last_fulltext_url(page, current_url) ==
    LET candidates == FullTextLinks(page.links, 1)
    IN IF candidates = <<>> THEN NoUrl
       ELSE LET href == candidates[Len(candidates)]
            IN Url(IF href.form = "abs" THEN href.justice
                   ELSE current_url.justice,
                   TRUE, href.page)

\* the url returned, NoUrl for None
resolve_justice_laws_fulltext_url(page, current_url) ==
    LET candidates == FullTextLinks(page.links, 1)
    IN IF candidates = <<>> THEN NoUrl
       ELSE LET href == candidates[1]
            IN Url(IF href.form = "abs" THEN href.justice
                   ELSE current_url.justice,
                   TRUE, href.page)

\* jurisdiction = law.get("jurisdiction") or "QC"
JurOf(law) == IF law.jurisdiction = None THEN "QC" ELSE law.jurisdiction

\* bucket = law.get("jurisdiction_bucket") or jurisdiction
BucketOf(law) ==
    IF law.jurisdiction_bucket = None THEN JurOf(law)
    ELSE law.jurisdiction_bucket

\* faulty variant: the full-text markers of the url are not looked at
NeedsResolveIgnoringFull(u) == u.justice

\* the host is Justice Laws and not is_full
NeedsResolve(u) == u.justice /\ ~u.full

(***************************************************************************)
(* main                                                                    *)
(***************************************************************************)
Law == laws[idx]

InLoop == pc = "loop" /\ idx <= Len(laws)

Parsed(rs) ==
    /\ rows' = rs
    /\ parsed' = [parsed EXCEPT ![idx] = <<rs>>]
    /\ pc' = "check"

Raise(e) ==
    /\ err' = e
    /\ pc' = "aborted"

\* faulty variant: an empty result is not told from a parsed one
IsZeroRowsNever(rs) == FALSE

\* len(rows) == 0
IsZeroRows(rs) == Len(rs) = 0

Init ==
    /\ laws \in {[i \in 1..Len(q) |-> [law_key |-> i] @@ q[i]] :
                    q \in BoundedSeq(Catalogue, MaxLaws)}
    /\ status = [i \in 1..Len(laws) |-> "to_ingest"]
    /\ fetches = [i \in 1..Len(laws) |-> <<>>]
    /\ parsed = [i \in 1..Len(laws) |-> <<>>]
    /\ idx = 1
    /\ pc = "main"
    /\ url = NoUrl /\ html = NoPage
    /\ rows = <<>> /\ bsz = BATCH_SIZE /\ off = 0
    /\ sink = {} /\ sent = <<>> /\ err = NoErr /\ runs = 1
    /\ in_rows = <<>> /\ out_rows = <<>>
    /\ p_in = NoInput /\ p_out = <<>> /\ p_ext = <<>>

\* if not laws: return
MainNoLaws ==
    /\ pc = "main"
    /\ laws = <<>>
    /\ pc' = "done"
    /\ UNCHANGED <<laws, status, idx, url, html, rows, bsz, off, sink, sent,
                   err, fetches, parsed, in_rows, out_rows, p_in, p_out, p_ext,
                   runs>>

MainEnterLoop ==
    /\ pc = "main"
    /\ laws # <<>>
    /\ pc' = "loop"
    /\ UNCHANGED <<laws, status, idx, url, html, rows, bsz, off, sink, sent,
                   err, fetches, parsed, in_rows, out_rows, p_in, p_out, p_ext,
                   runs>>

\* faulty variant: a missing url is raised as an error
SkipMissingUrlRaises ==
    /\ InLoop
    /\ Law.source_url = NoUrl
    /\ Raise([kind |-> "MissingUrlError", law |-> idx])
    /\ UNCHANGED <<laws, status, idx, url, html, rows, bsz, off, sink, sent,
                   fetches, parsed, in_rows, out_rows, p_in, p_out, p_ext,
                   runs>>

\* if not url: continue
SkipMissingUrl ==
    /\ InLoop
    /\ Law.source_url = NoUrl
    /\ idx' = idx + 1
    /\ UNCHANGED <<laws, status, pc, url, html, rows, bsz, off, sink, sent,
                   err, fetches, parsed, in_rows, out_rows, p_in, p_out, p_ext,
                   runs>>

\* html = fetch_html(url)
FetchOk ==
    /\ InLoop
    /\ Law.source_url # NoUrl
    /\ url' = Law.source_url
    /\ html' = Web(Law.source_url.page)
    /\ fetches' = [fetches EXCEPT ![idx] = Append(@, Law.source_url)]
    /\ pc' = "dispatch"
    /\ UNCHANGED <<laws, status, idx, rows, bsz, off, sink, sent, err, parsed,
                   in_rows, out_rows, p_in, p_out, p_ext, runs>>

\* faulty variant: the failed fetch is logged and the loop goes on
FetchFailSkipped ==
    /\ InLoop
    /\ Law.source_url # NoUrl
    /\ fetches' = [fetches EXCEPT ![idx] = Append(@, Law.source_url)]
    /\ idx' = idx + 1
    /\ UNCHANGED <<laws, status, pc, url, html, rows, bsz, off, sink, sent,
                   err, parsed, in_rows, out_rows, p_in, p_out, p_ext, runs>>

\* fetch_html(url) raises: timeout or raise_for_status
FetchFail ==
    /\ InLoop
    /\ Law.source_url # NoUrl
    /\ fetches' = [fetches EXCEPT ![idx] = Append(@, Law.source_url)]
    /\ Raise([kind |-> "FetchError", law |-> idx])
    /\ UNCHANGED <<laws, status, idx, url, html, rows, bsz, off, sink, sent,
                   parsed, in_rows, out_rows, p_in, p_out, p_ext, runs>>

\* the for loop is exhausted
LoopEnd ==
    /\ pc = "loop"
    /\ idx > Len(laws)
    /\ pc' = "done"
    /\ UNCHANGED <<laws, status, idx, url, html, rows, bsz, off, sink, sent,
                   err, fetches, parsed, in_rows, out_rows, p_in, p_out, p_ext,
                   runs>>

\* parse_by_jurisdiction, jurisdiction == "QC"
DispatchQC ==
    /\ pc = "dispatch"
    /\ JurOf(Law) = "QC"
    /\ Parsed(parse_legisquebec_articles(html, Law.canonical_code_id,
                                         JurOf(Law), BucketOf(Law)))
    /\ UNCHANGED <<laws, status, idx, url, html, bsz, off, sink, sent, err,
                   fetches, in_rows, out_rows, p_in, p_out, p_ext, runs>>

\* parse_by_jurisdiction, jurisdiction == "CA-FED", a full-text url resolved
DispatchFedResolved ==
    /\ pc = "dispatch"
    /\ JurOf(Law) = "CA-FED"
    /\ NeedsResolve(url)
    /\ resolve_justice_laws_fulltext_url(html, url) # NoUrl
    /\ pc' = "refetch"
    /\ UNCHANGED <<laws, status, idx, url, html, rows, bsz, off, sink, sent,
                   err, fetches, parsed, in_rows, out_rows, p_in, p_out, p_ext,
                   runs>>

\* html = fetch_html(full_url); source_url = full_url; then the parser
RefetchOk ==
    /\ pc = "refetch"
    /\ LET full_url == resolve_justice_laws_fulltext_url(html, url)
       IN /\ url' = full_url
          /\ html' = Web(full_url.page)
          /\ fetches' = [fetches EXCEPT ![idx] = Append(@, full_url)]
          /\ Parsed(parse_justice_laws_sections(
                        Web(full_url.page), Law.canonical_code_id,
                        JurOf(Law), BucketOf(Law)))
    /\ UNCHANGED <<laws, status, idx, bsz, off, sink, sent, err,
                   in_rows, out_rows, p_in, p_out, p_ext, runs>>

\* fetch_html(full_url) raises
RefetchFail ==
    /\ pc = "refetch"
    /\ fetches' = [fetches EXCEPT ![idx] =
                      Append(@, resolve_justice_laws_fulltext_url(html, url))]
    /\ Raise([kind |-> "FetchError", law |-> idx])
    /\ UNCHANGED <<laws, status, idx, url, html, rows, bsz, off, sink, sent,
                   parsed, in_rows, out_rows, p_in, p_out, p_ext, runs>>

\* parse_by_jurisdiction, jurisdiction == "CA-FED", nothing to resolve or
\* nothing resolved: the parser runs on the page fetched first
DispatchFedDirect ==
    /\ pc = "dispatch"
    /\ JurOf(Law) = "CA-FED"
    /\ \/ ~NeedsResolve(url)
       \/ resolve_justice_laws_fulltext_url(html, url) = NoUrl
    /\ Parsed(parse_justice_laws_sections(html, Law.canonical_code_id,
                                          JurOf(Law), BucketOf(Law)))
    /\ UNCHANGED <<laws, status, idx, url, html, bsz, off, sink, sent, err,
                   fetches, in_rows, out_rows, p_in, p_out, p_ext, runs>>

\* parse_by_jurisdiction, any other jurisdiction: return []
DispatchUnknown ==
    /\ pc = "dispatch"
    /\ JurOf(Law) \notin {"QC", "CA-FED"}
    /\ Parsed(<<>>)
    /\ UNCHANGED <<laws, status, idx, url, html, bsz, off, sink, sent, err,
                   fetches, in_rows, out_rows, p_in, p_out, p_ext, runs>>

\* if len(rows) == 0: raise RuntimeError("Parsed 0 rows ...")
ZeroRows ==
    /\ pc = "check"
    /\ IsZeroRows(rows)
    /\ Raise([kind |-> "ZeroRecordsError", law |-> idx])
    /\ UNCHANGED <<laws, status, idx, url, html, rows, bsz, off, sink, sent,
                   fetches, parsed, in_rows, out_rows, p_in, p_out, p_ext,
                   runs>>

\* rows = dedupe_rows(rows); upsert_legal_vectors(rows) up to its loop
StartUpsert ==
    /\ pc = "check"
    /\ ~IsZeroRows(rows)
    /\ UpsertEnter(dedupe_rows(rows), BATCH_SIZE)
    /\ UNCHANGED <<laws, status, idx, url, html, sink, sent, err, fetches,
                   parsed, in_rows, out_rows, p_in, p_out, p_ext, runs>>

\* upsert_legal_vectors returns; mark_ingested(law_key); next iteration
MarkIngested ==
    /\ pc = "upsert"
    /\ idx >= 1
    /\ off >= Len(rows)
    /\ status' = [status EXCEPT ![idx] = "ingested"]
    /\ idx' = idx + 1
    /\ pc' = "loop"
    /\ UNCHANGED <<laws, url, html, rows, bsz, off, sink, sent, err, fetches,
                   parsed, in_rows, out_rows, p_in, p_out, p_ext, runs>>

Next ==
    \/ MainNoLaws
    \/ MainEnterLoop
    \/ SkipMissingUrl
    \/ FetchOk
    \/ FetchFail
    \/ LoopEnd
    \/ DispatchQC
    \/ DispatchFedResolved
    \/ RefetchOk
    \/ RefetchFail
    \/ DispatchFedDirect
    \/ DispatchUnknown
    \/ ZeroRows
    \/ StartUpsert
    \/ UpsertBatchOk
    \/ UpsertBatchFail
    \/ MarkIngested

Spec == Init /\ [][Next]_vars

(***************************************************************************)
(* main started again on the same registry                                 *)
(***************************************************************************)
\* the state of a fresh process: nothing fetched, parsed or raised yet for
\* the rows still to_ingest; the sink and the registry keep their content.
\* Repeated runs are followed for registries of up to MaxRerunLaws rows.
Restart ==
    /\ Len(laws) <= MaxRerunLaws
    /\ runs < MaxRuns
    /\ runs' = runs + 1
    /\ err' = NoErr
    /\ url' = NoUrl /\ html' = NoPage
    /\ rows' = <<>> /\ bsz' = BATCH_SIZE /\ off' = 0
    /\ UNCHANGED <<laws, sink, sent, in_rows, out_rows, p_in, p_out, p_ext>>

\* main is run again after an exception ended it.  The query returns the
\* rows still to_ingest: the one the run failed at, those after it, and
\* rows without source_url before it, which the loop passes again without
\* effect; the loop is taken up at the first of them that has a url.
Rerun ==
    /\ pc = "aborted"
    /\ Restart
    /\ idx' = CHOOSE i \in 1..Len(laws) :
                  /\ status[i] = "to_ingest" /\ laws[i].source_url # NoUrl
                  /\ \A j \in 1..(i - 1) :
                        ~(/\ status[j] = "to_ingest"
                          /\ laws[j].source_url # NoUrl)
    /\ pc' = "loop"
    /\ fetches' = [i \in 1..Len(laws) |->
                      IF status[i] = "to_ingest" THEN <<>> ELSE fetches[i]]
    /\ parsed' = [i \in 1..Len(laws) |->
                     IF status[i] = "to_ingest" THEN <<>> ELSE parsed[i]]
    /\ UNCHANGED status

\* main is run a second time on identical input: after a complete run the
\* registry rows are set back to to_ingest and main is started
RunAgain ==
    /\ pc = "done"
    /\ Restart
    /\ status' = [i \in 1..Len(laws) |-> "to_ingest"]
    /\ fetches' = [i \in 1..Len(laws) |-> <<>>]
    /\ parsed' = [i \in 1..Len(laws) |-> <<>>]
    /\ idx' = 1
    /\ pc' = "main"

NextRerun == Next \/ Rerun \/ RunAgain

SpecRerun == Init /\ [][NextRerun]_vars

(***************************************************************************)
(* Properties of dedupe_rows and of the batches of upsert_legal_vectors    *)
(***************************************************************************)
\* positions of the records of rs with key k
Group(rs, k) == {i \in 1..Len(rs) : Key(rs[i]) = k}

\* the first position of group k whose text is as long as any of the group
FirstLongest(rs, k) ==
    CHOOSE i \in Group(rs, k) :
        /\ \A j \in Group(rs, k) : TextLen(rs[j]) <= TextLen(rs[i])
        /\ \A j \in Group(rs, k) : TextLen(rs[j]) = TextLen(rs[i]) => i <= j

DistinctKeys(rs) ==
    \A i, j \in 1..Len(rs) : Key(rs[i]) = Key(rs[j]) => i = j

RECURSIVE Concat(_, _)
Concat(batches, k) ==
    IF k > Len(batches) THEN <<>>
    ELSE batches[k].batch \o Concat(batches, k + 1)

\* C4: dedupe_rows keeps, for every key of its input, exactly the first of
\* the group's longest records; a record with a strictly shorter text than
\* another of its group is never the one kept.
C4_LongestFirstKept ==
    pc = "deduped" =>
        \A k \in Keys(in_rows) :
            /\ \E i \in 1..Len(out_rows) :
                   out_rows[i] = in_rows[FirstLongest(in_rows, k)]
            /\ \A i \in 1..Len(out_rows) :
                   Key(out_rows[i]) = k =>
                       /\ out_rows[i] = in_rows[FirstLongest(in_rows, k)]
                       /\ \A j \in Group(in_rows, k) :
                              TextLen(in_rows[j]) <= TextLen(out_rows[i])

\* a call whose input holds a tie of the longest length after a shorter one
C4_Witness ==
    /\ pc = "deduped"
    /\ \E i, j, l \in 1..Len(in_rows) :
           /\ i < j /\ j < l
           /\ Key(in_rows[i]) = Key(in_rows[j])
           /\ Key(in_rows[j]) = Key(in_rows[l])
           /\ TextLen(in_rows[i]) < TextLen(in_rows[j])
           /\ TextLen(in_rows[j]) = TextLen(in_rows[l])
           /\ in_rows[j] # in_rows[l]
           /\ out_rows = <<in_rows[j]>>

\* C5: the output of dedupe_rows holds every key of its input exactly once
\* and no other key, and so do the batches upsert_legal_vectors sends: no
\* key is sent twice, none is sent that the input lacks, and when the call
\* returns every key of the input has been sent.
C5_KeysUnique ==
    /\ pc = "deduped" =>
           /\ DistinctKeys(out_rows)
           /\ Keys(out_rows) = Keys(in_rows)
    /\ pc \in {"upsert", "returned", "aborted"} =>
           /\ DistinctKeys(Concat(sent, 1))
           /\ Keys(Concat(sent, 1)) \subseteq Keys(in_rows)
           /\ \A b \in 1..Len(sent) : Len(sent[b].batch) <= bsz
           /\ pc = "returned" => Keys(Concat(sent, 1)) = Keys(in_rows)

\* a call of upsert_legal_vectors that sent two batches for an input in
\* which a key occurs twice
C5_Witness ==
    /\ pc = "returned"
    /\ Len(sent) = 2
    /\ ~DistinctKeys(in_rows)

(***************************************************************************)
(* Properties of the parsers                                               *)
(***************************************************************************)
\* C3: every record a parser returns (provincial numeric-dot or
\* word-marker, federal DOM or regex fallback) has a text of at least 60
\* characters.
C3_MinTextLen ==
    pc = "unit_parsed" =>
        \A i \in 1..Len(p_out) :
            /\ p_out[i].text # NoText
            /\ p_out[i].text.len >= MIN_CHUNK_LEN

\* a provincial parse that returned a record and dropped a chunk which is
\* 60 characters long with its marker and shorter without it
C3_Witness ==
    /\ pc = "unit_parsed"
    /\ p_in.jur = "QC"
    /\ p_out # <<>>
    /\ \E i \in 1..Len(p_ext) :
          LET ls == Slice(p_in.page.text, Starts(p_in.page.text),
                          p_ext[i].start, p_ext[i].end)
          IN /\ ChunkLen(ls) >= MIN_CHUNK_LEN
             /\ \A j \in 1..Len(p_out) : p_out[j].text.at # p_ext[i].start

\* C6: the federal parser returns the DOM rows only when there are at least
\* 20 of them; with fewer it returns what the regex fallback finds (possibly
\* nothing), and none of the DOM rows.
C6_FallbackReplacesDom ==
    (pc = "unit_parsed" /\ p_in.jur = "CA-FED" /\ p_in.page.hasMain) =>
        LET dom == DomRows(p_in.page, "A", "CA-FED", "CA")
        IN IF Len(dom) < DOM_MIN_ROWS
           THEN /\ p_out = FallbackRows(p_in.page, "A", "CA-FED", "CA")
                /\ \A i \in 1..Len(p_out) : p_out[i].text.via = "regex"
           ELSE /\ p_out = dedupe_rows(dom)
                /\ \A i \in 1..Len(p_out) : p_out[i].text.via = "dom"

\* a federal parse whose DOM pass produced 19 rows and whose fallback
\* produced a row
C6_Witness ==
    /\ pc = "unit_parsed"
    /\ p_in.jur = "CA-FED"
    /\ p_in.page.hasMain
    /\ Len(DomRows(p_in.page, "A", "CA-FED", "CA")) = DOM_MIN_ROWS - 1
    /\ p_out # <<>>

\* the lines the strategy in use matches
UsedMatchLines ==
    LET text == p_in.page.text
    IN IF p_in.jur = "QC"
       THEN IF \E k \in 1..Len(text) : IsDotMatch(text, k)
            THEN {k \in 1..Len(text) : IsDotMatch(text, k)}
            ELSE {k \in 1..Len(text) : IsWordMatch(text, k)}
       ELSE {k \in 1..Len(text) : IsSecMatch(text, k)}

\* C7: for a text with N boundary matches the regex strategies slice
\* exactly N chunks; the first starts at the first match, each ends where
\* the next starts, the last ends at the end of the text, and none is empty.
C7_ChunksTile ==
    (/\ pc = "unit_parsed"
     /\ \/ p_in.jur = "QC"
        \/ /\ p_in.page.hasMain
           /\ ~DomAccepted(DomRows(p_in.page, "A", "CA-FED", "CA"))) =>
        LET text == p_in.page.text
            N == Cardinality(UsedMatchLines)
        IN /\ Len(p_ext) = N
           /\ N > 0 =>
                 /\ \E k \in UsedMatchLines :
                       /\ \A j \in UsedMatchLines : k <= j
                       /\ p_ext[1].start = LineStart(text, k)
                 /\ p_ext[N].end = TextLength(text)
           /\ \A i \in 1..N : p_ext[i].start < p_ext[i].end
           /\ \A i \in 1..(N - 1) : p_ext[i].end = p_ext[i + 1].start

\* a provincial parse of a text with two matches, the first not on line 1
C7_Witness ==
    /\ pc = "unit_parsed"
    /\ p_in.jur = "QC"
    /\ Len(p_ext) = 2
    /\ p_ext[1].start > 0

(***************************************************************************)
(* Properties of main                                                      *)
(***************************************************************************)
LawIds == 1..Len(laws)

\* the rows of law i the sink accepted, in the order sent
RECURSIVE SentRows(_, _)
SentRows(i, k) ==
    IF k > Len(sent) THEN <<>>
    ELSE (IF sent[k].law = i THEN sent[k].batch ELSE <<>>) \o SentRows(i, k + 1)

\* parse_by_jurisdiction returned for law i, and returned no row
ParsedEmpty(i) == parsed[i] = << <<>> >>

\* C1: a document whose parsed record set is empty is aborted with the
\* zero-rows error: nothing of it is upserted, it is not marked ingested and
\* its status stays to_ingest.
C1_ZeroRowsAborts ==
    \A i \in LawIds :
        ParsedEmpty(i) =>
            /\ status[i] = "to_ingest"
            /\ \A k \in 1..Len(sent) : sent[k].law # i
            /\ \/ pc = "check" /\ idx = i
               \/ /\ pc = "aborted"
                  /\ err = [kind |-> "ZeroRecordsError", law |-> i]

\* the second document of a run parsed to nothing after the first was
\* ingested
C1_Witness ==
    /\ pc = "aborted"
    /\ err.kind = "ZeroRecordsError"
    /\ err.law = 2
    /\ JurOf(laws[2]) = "QC"
    /\ status[1] = "ingested"

\* C2 (as claimed): a document of unknown jurisdiction is skipped without
\* an error, and main goes on with the next document.
C2_UnknownJurisdictionSkipped ==
    \A i \in LawIds :
        (JurOf(laws[i]) \notin {"QC", "CA-FED"} /\ ParsedEmpty(i)) =>
            ~(pc = "aborted" /\ err.law = i)

\* the url the resolver gave for law i, from the page fetched first
ResolvedFor(i) ==
    resolve_justice_laws_fulltext_url(Web(laws[i].source_url.page),
                                      laws[i].source_url)

\* law i is federal, on the Justice Laws host, not at a full-text url, and
\* the resolver finds a link
Refetches(i) ==
    /\ JurOf(laws[i]) = "CA-FED"
    /\ laws[i].source_url.justice
    /\ ~laws[i].source_url.full
    /\ ResolvedFor(i) # NoUrl

\* the run got past the fetches of law i
FetchedThrough(i) ==
    \/ i < idx
    \/ i = idx /\ pc \in {"check", "upsert"}
    \/ i = idx /\ pc = "aborted" /\ err.kind # "FetchError"

\* C8: a document is fetched once from its source_url and at most once
\* more; the second fetch happens only for a federal document whose url has
\* no full-text marker and for which the resolver returned a url, and it
\* goes to that url.  A provincial or unknown-jurisdiction document and a
\* federal one already at a full-text url are fetched exactly once.
C8_FetchPoints ==
    \A i \in LawIds :
        /\ Len(fetches[i]) <= 2
        /\ Len(fetches[i]) >= 1 => fetches[i][1] = laws[i].source_url
        /\ Len(fetches[i]) = 2 =>
               /\ Refetches(i)
               /\ fetches[i][2] = ResolvedFor(i)
        /\ (FetchedThrough(i) /\ laws[i].source_url # NoUrl) =>
               Len(fetches[i]) = IF Refetches(i) THEN 2 ELSE 1

\* a federal document at a full-text url, whose page holds a full-text
\* link, was parsed after one fetch
C8_Witness ==
    \E i \in LawIds :
        /\ JurOf(laws[i]) = "CA-FED"
        /\ laws[i].source_url.full
        /\ ResolvedFor(i) # NoUrl
        /\ FetchedThrough(i)
        /\ Len(fetches[i]) = 1
        /\ \E j \in LawIds : Len(fetches[j]) = 2

\* C9: a law is marked ingested only after its page parsed to at least one
\* record and every batch of its deduplicated records was accepted by the
\* sink.
C9_IngestedAfterSunk ==
    \A i \in LawIds :
        status[i] = "ingested" =>
            /\ Len(parsed[i]) = 1
            /\ parsed[i][1] # <<>>
            /\ SentRows(i, 1) = dedupe_rows(parsed[i][1])

\* a law marked ingested after two batches
C9_Witness ==
    \E i \in LawIds :
        /\ status[i] = "ingested"
        /\ Cardinality({k \in 1..Len(sent) : sent[k].law = i}) = 2

\* C10: when the sink rejects the batch at offset i the run ends with an
\* error that reports i; the batches before i are in the sink, nothing from
\* offset i on was sent, and the law is not marked ingested.
C10_UpsertFailure ==
    err.kind = "UpsertError" =>
        /\ pc = "aborted"
        /\ err.off = off
        /\ err.sample = Sample(BatchAt(rows, off, bsz))
        /\ SentRows(err.law, 1) = SubSeq(rows, 1, err.off)
        /\ \A k \in 1..err.off : rows[k] \in sink
        /\ \A k \in 1..Len(sent) : sent[k].law = err.law => sent[k].off < err.off
        /\ status[err.law] = "to_ingest"

\* the second batch of a document was rejected
C10_Witness ==
    /\ err.kind = "UpsertError"
    /\ err.off = BATCH_SIZE
    /\ Len(sent) >= 1
    /\ sent[Len(sent)].law = err.law


\* no url was requested twice for law i
NoRefetchOfSame(i) ==
    \A a, b \in 1..Len(fetches[i]) : fetches[i][a] = fetches[i][b] => a = b

\* C11: a failed fetch, the first one or the federal re-fetch, is not
\* retried and ends the run: nothing of the document is sent to the sink,
\* its status stays to_ingest, no later document is fetched, parsed or
\* sent, and the documents before it stay ingested.  The loop never moves
\* past a document that has a url without ingesting it.
C11_FetchFailureHalts ==
    /\ \A i \in LawIds : NoRefetchOfSame(i)
    /\ \A i \in LawIds :
          (i < idx /\ laws[i].source_url # NoUrl) => status[i] = "ingested"
    /\ err.kind = "FetchError" =>
          /\ pc = "aborted"
          /\ idx = err.law
          /\ status[err.law] = "to_ingest"
          /\ parsed[err.law] = <<>>
          /\ \A k \in 1..Len(sent) : sent[k].law < err.law
          /\ \A j \in LawIds :
                j > err.law =>
                    /\ fetches[j] = <<>>
                    /\ parsed[j] = <<>>
                    /\ status[j] = "to_ingest"

\* the re-fetch of the second document failed after the first document was
\* ingested
C11_Witness ==
    /\ err.kind = "FetchError"
    /\ err.law = 2
    /\ Len(fetches[2]) = 2
    /\ status[1] = "ingested"


\* position of the first link of the page that matches the full-text
\* naming pattern, 0 when no link matches
FirstFullTextLink(page) ==
    IF \E k \in 1..Len(page.links) : page.links[k].match
    THEN CHOOSE k \in 1..Len(page.links) :
            /\ page.links[k].match
            /\ \A j \in 1..(k - 1) : ~page.links[j].match
    ELSE 0

\* the rows the federal parser gives for page p and law i
FedRowsOf(i, p) ==
    parse_justice_laws_sections(p, laws[i].canonical_code_id,
                                JurOf(laws[i]), BucketOf(laws[i]))

\* law i was parsed as the claim says: from its own page after one fetch
\* when no link matches, from the page of the first matching link after a
\* second fetch when one does
ParsedThroughResolver(i) ==
    LET src  == laws[i].source_url
        page == Web(src.page)
        k    == FirstFullTextLink(page)
    IN IF k = 0
       THEN /\ fetches[i] = <<src>>
            /\ parsed[i] = <<FedRowsOf(i, page)>>
       ELSE /\ Len(fetches[i]) = 2
            /\ fetches[i][1] = src
            /\ fetches[i][2].page = page.links[k].page
            /\ parsed[i] = <<FedRowsOf(i, Web(page.links[k].page))>>

\* law i is federal, has a url without full-text marker, and was parsed
FedIndexParsed(i) ==
    /\ JurOf(laws[i]) = "CA-FED"
    /\ laws[i].source_url # NoUrl
    /\ ~laws[i].source_url.full
    /\ parsed[i] # <<>>

\* C13 as stated: every federal document fetched from a url without
\* full-text marker is parsed from its own page when no link matches and
\* from the re-fetched first matching link when one does
C13_AnyHostResolves ==
    \A i \in LawIds : FedIndexParsed(i) => ParsedThroughResolver(i)

\* C13: a federal document fetched from a Justice Laws url without
\* full-text marker is parsed from the page fetched first, with no second
\* fetch, when no link of that page matches the full-text pattern; when a
\* link matches, the first matching link is fetched and the document is
\* parsed from that page, never from the index page.  On any other host
\* the resolver is not called and the page fetched first is parsed.
C13_JusticeHostResolves ==
    \A i \in LawIds :
        FedIndexParsed(i) =>
            IF laws[i].source_url.justice
            THEN ParsedThroughResolver(i)
            ELSE /\ fetches[i] = <<laws[i].source_url>>
                 /\ parsed[i] =
                        <<FedRowsOf(i, Web(laws[i].source_url.page))>>

\* the first document was parsed from its index page, which has no
\* matching link; the second from the re-fetched page, whose rows differ
\* from those of its index page
C13_Witness ==
    /\ Len(laws) = 2
    /\ FedIndexParsed(1) /\ laws[1].source_url.justice
    /\ FirstFullTextLink(Web(laws[1].source_url.page)) = 0
    /\ FedIndexParsed(2) /\ laws[2].source_url.justice
    /\ FirstFullTextLink(Web(laws[2].source_url.page)) > 0
    /\ parsed[2] # <<FedRowsOf(2, Web(laws[2].source_url.page))>>


DotLines(text) == {k \in 1..Len(text) : IsDotMatch(text, k)}

WordLines(text) == {k \in 1..Len(text) : IsWordMatch(text, k)}

\* the chunks start exactly at the lines of set ks, and every row was cut
\* at one of these lines with the marker of detector mode removed
BoundariesFrom(text, ks, mode) ==
    /\ Len(p_ext) = Cardinality(ks)
    /\ \A k \in ks : \E i \in 1..Len(p_ext) :
          p_ext[i].start = LineStart(text, k)
    /\ \A j \in 1..Len(p_out) :
          /\ p_out[j].text.via = mode
          /\ \E k \in ks : p_out[j].text.at = LineStart(text, k)

\* C14: the provincial parser uses the numeric-dot matches whenever there
\* is at least one, and then no chunk starts at a word-marker line and no
\* row has the word marker removed; it uses the word-marker matches only
\* when numeric-dot finds none; when neither finds a match it returns no
\* row.
C14_FirstDetectorWins ==
    (pc = "unit_parsed" /\ p_in.jur = "QC") =>
        LET text == p_in.page.text
        IN IF DotLines(text) # {}
           THEN BoundariesFrom(text, DotLines(text), "dot")
           ELSE IF WordLines(text) # {}
           THEN BoundariesFrom(text, WordLines(text), "word")
           ELSE p_out = <<>> /\ p_ext = <<>>

\* a text holding both a numeric-dot and a word-marker line was parsed
\* into at least one row
C14_Witness ==
    /\ pc = "unit_parsed"
    /\ p_in.jur = "QC"
    /\ DotLines(p_in.page.text) # {}
    /\ WordLines(p_in.page.text) # {}
    /\ p_out # <<>>


\* candidate i starts with a section number
StartsWithNumber(cands, i) == cands[i].num # <<>>

\* candidate i gets to sec_num_re with a text of at least 40 characters
\* and starts with a section number
ReachesNumber(cands, i) ==
    /\ CandTextLen(cands[i]) >= MIN_DOM_TEXT_LEN
    /\ StartsWithNumber(cands, i)

\* no two DOM rows carry the same section number
OneDomRowPerNumber ==
    \A a, b \in 1..Len(p_out) :
        p_out[a].citation = p_out[b].citation => a = b

\* C15 as stated: a DOM row is built from the first candidate, in document
\* order, whose text starts with its number; no later candidate with that
\* number produces a row
C15_FirstNumberedKept ==
    pc = "unit_dom" =>
        LET cands == p_in.page.cands
        IN /\ OneDomRowPerNumber
           /\ \A j \in 1..Len(p_out) :
                 LET i == p_out[j].text.at
                 IN /\ i \in 1..Len(cands)
                    /\ p_out[j].citation[2] = cands[i].num
                    /\ \A h \in 1..(i - 1) :
                          ~(/\ StartsWithNumber(cands, h)
                            /\ cands[h].num = cands[i].num)

\* C15: the DOM loop yields at most one row per section number, built from
\* the first candidate in document order that has a text of at least 40
\* characters and starts with that number.  That candidate yields the row
\* exactly when its body has at least 60 characters; no later candidate
\* with the same number yields or replaces a row.  Candidates with a
\* shorter text are passed over before their number is read.
C15_FirstParsedKept ==
    pc = "unit_dom" =>
        LET cands == p_in.page.cands
            IsFirst(i) ==
                /\ ReachesNumber(cands, i)
                /\ \A h \in 1..(i - 1) :
                      ~(/\ ReachesNumber(cands, h)
                        /\ cands[h].num = cands[i].num)
        IN /\ OneDomRowPerNumber
           /\ \A j \in 1..Len(p_out) :
                 LET i == p_out[j].text.at
                 IN /\ i \in 1..Len(cands)
                    /\ p_out[j].text.via = "dom"
                    /\ p_out[j].text.len = cands[i].len
                    /\ p_out[j].citation[2] = cands[i].num
                    /\ IsFirst(i)
           /\ \A i \in 1..Len(cands) :
                 (IsFirst(i) /\ cands[i].len >= MIN_CHUNK_LEN) =>
                     \E j \in 1..Len(p_out) : p_out[j].text.at = i

\* two candidates carry the same number, both with a body long enough
\* for a row: the one row comes from the first
C15_Witness ==
    /\ pc = "unit_dom"
    /\ Len(p_out) = 1
    /\ \E h, i \in 1..Len(p_in.page.cands) :
          /\ h < i
          /\ p_in.page.cands[h].num # <<>>
          /\ p_in.page.cands[i].num = p_in.page.cands[h].num
          /\ p_in.page.cands[h].len >= MIN_CHUNK_LEN
          /\ p_in.page.cands[i].len >= MIN_CHUNK_LEN
          /\ p_out[1].text.at = h


\* nothing has happened for law i
Untouched(i) ==
    /\ fetches[i] = <<>>
    /\ parsed[i] = <<>>
    /\ status[i] = "to_ingest"
    /\ \A k \in 1..Len(sent) : sent[k].law # i
    /\ err.kind # None => err.law # i

\* a step taken while the loop is at a row without source_url moves to the
\* next row and changes nothing else
SkipStep ==
    (InLoop /\ Law.source_url = NoUrl) =>
        /\ idx' = idx + 1
        /\ pc' = "loop"
        /\ UNCHANGED <<laws, status, url, html, rows, sink, sent, err,
                       fetches, parsed, runs>>

\* C16: a registry row without source_url is never fetched, parsed, sent
\* to the sink or marked, and no error is raised for it; the step main
\* takes at such a row only moves the loop to the next row.
C16_MissingUrlSkipped ==
    /\ [](\A i \in LawIds : laws[i].source_url = NoUrl => Untouched(i))
    /\ [][SkipStep]_vars

\* the first row has no source_url and the second was ingested
C16_Witness ==
    /\ Len(laws) = 2
    /\ laws[1].source_url = NoUrl
    /\ Untouched(1)
    /\ status[2] = "ingested"


\* the page law i is parsed from when no fetch fails
PageParsed(i) ==
    LET src  == laws[i].source_url
        page == Web(src.page)
        k    == FirstFullTextLink(page)
    IN IF JurOf(laws[i]) = "CA-FED" /\ src.justice /\ ~src.full /\ k > 0
       THEN Web(page.links[k].page)
       ELSE page

\* the rows an undisturbed run sends to the sink for law i
CleanRows(i) ==
    IF laws[i].source_url = NoUrl THEN <<>>
    ELSE IF JurOf(laws[i]) = "QC"
    THEN dedupe_rows(parse_legisquebec_articles(
                         PageParsed(i), laws[i].canonical_code_id,
                         JurOf(laws[i]), BucketOf(laws[i])))
    ELSE IF JurOf(laws[i]) = "CA-FED"
    THEN dedupe_rows(FedRowsOf(i, PageParsed(i)))
    ELSE <<>>

\* CleanRows of the laws 1..n, as a tuple
RECURSIVE CleanRowsUpTo(_)
CleanRowsUpTo(n) ==
    IF n = 0 THEN <<>> ELSE Append(CleanRowsUpTo(n - 1), CleanRows(n))

\* every row of the tuple of row lists cr
AllRows(cr) == UNION {Range(cr[i]) : i \in 1..Len(cr)}

\* what one undisturbed run that sends the row lists cr in order leaves
\* in an empty sink: for every key the row of the last list with the key
ExpectedSink(cr) ==
    {r \in AllRows(cr) :
        \E i \in 1..Len(cr) :
            /\ r \in Range(cr[i])
            /\ \A j \in (i + 1)..Len(cr) : Key(r) \notin Keys(cr[j])}

\* C12: however often main is started on the same registry, after a
\* failure or after a complete run, the sink holds one record per key
\* (code_id, jurisdiction, citation); sending the batch accepted last
\* once more leaves the sink as it is, content and size; and every
\* complete run, the first one or one that follows a failed or a complete
\* run, ends with exactly the records one undisturbed run leaves.
C12_RerunIdempotent ==
    /\ Cardinality({Key(s) : s \in sink}) = Cardinality(sink)
    /\ sent # <<>> =>
          /\ Upsert(sink, sent[Len(sent)].batch) = sink
          /\ Cardinality(Upsert(sink, sent[Len(sent)].batch))
                = Cardinality(sink)
    /\ pc = "done" =>
          \A cr \in {CleanRowsUpTo(Len(laws))} : sink = ExpectedSink(cr)

\* a second run completed after the first one failed in the second batch
\* of a document: the first batch was accepted twice
C12_Witness ==
    /\ pc = "done"
    /\ runs = 2
    /\ \E k, m \in 1..Len(sent) :
          /\ k < m
          /\ sent[k].law = sent[m].law
          /\ sent[k].off = sent[m].off
          /\ sent[k].batch = sent[m].batch
          /\ \E n \in 1..Len(sent) : k < n /\ n < m /\ sent[n].off > 0
    /\ sink # {}

====
